---- MODULE Spec2Model ----
(***************************************************************************)
(* ComputerManager: the agent's tool-calling loop (src/agent/core.py) and  *)
(* the security pipeline (src/security/middleware.py, permissions.py,      *)
(* confirmation_dialog.py, audit_log.py), with the tool registry          *)
(* (src/agent/tool_registry.py) and the sanitization of logged parameters. *)
(*                                                                         *)
(* CHARS spells each tool name as a sequence of characters, so that the    *)
(* substring tests of the code ("keyword in tool_lower") are computed.     *)
(***************************************************************************)
EXTENDS Integers, Sequences, FiniteSets, TLC

VARIABLES
    \* ---- PermissionManager
    _current_level,        \* PermissionManager._current_level
    _is_elevated,          \* PermissionManager._is_elevated
    \* ---- ConfirmationManager
    require_confirmation,                     \* config.require_confirmation
    sensitive_actions_require_confirmation,   \* config.sensitive_actions_...
    _decision_cache,       \* tool name -> (decision, expiry) or None
    now,                   \* time.time()
    \* ---- AuditLogger
    enabled,               \* AuditLogger.enabled (config.enable_audit_log)
    audit_log,             \* the lines of the live audit log file
    params,                \* a parameter structure handed to the logger
    sanitized,             \* what sanitize_parameters returned for it
    \* ---- SecurityMiddleware: the frame of the execute_with_security call
    call,
    \* ---- Agent
    max_iterations,        \* Agent.max_iterations
    registry,              \* ToolRegistry._tools: tool name -> tool
    registry_call,         \* the last register/unregister call and its exit
    conversation_history,  \* Agent.conversation_history
    turn,                  \* the frame of the process_message call
    turns,                 \* process_message calls started
    suspended,             \* frames of the other process_message calls
    \* ---- SecurityMiddleware.wrap_tool
    wrapped,               \* names of the tools whose execute is secure_execute
    \* ---- AuditLogger: the files and the logging module
    os_name,               \* os.name: "posix" or "nt"
    fs,                    \* the directory: path -> number of the file
    inodes,                \* the files by number: the lines of each
    handlers,              \* logging.getLogger('audit').handlers
    loggers,               \* the AuditLogger instances constructed
    audit_call,            \* the last call of an AuditLogger method
    clears,                \* clear_logs calls made
    reads,                 \* get_recent_logs calls made
    written,               \* observer: every entry a write operation logged
    \* ---- observers (history variables, read by no action)
    executions,            \* every start of a tool's own execute body
    cached_at,             \* tool name -> time of the last cache_decision
    calls,                 \* execute_with_security calls started
    ticks                  \* clock advances taken

vars == << _current_level, _is_elevated, require_confirmation,
           sensitive_actions_require_confirmation, _decision_cache, now,
           enabled, audit_log, call, max_iterations, registry,
           conversation_history, turn, turns, executions, cached_at,
           calls, ticks, registry_call, params, sanitized, suspended,
           wrapped, os_name, fs, inodes, handlers, loggers, audit_call,
           clears, reads, written >>

securityVars == << _current_level, _is_elevated, require_confirmation,
                   sensitive_actions_require_confirmation, _decision_cache,
                   now, enabled, audit_log, call, cached_at, calls,
                   ticks >>

agentVars == << max_iterations, registry, conversation_history, turn,
               turns >>

\* what neither the pipeline nor the agent loop writes
\* the files of the audit log and the logging module
fileVars == << os_name, fs, inodes, handlers, loggers, audit_call, clears,
               reads, written >>

otherVars == << registry_call, params, sanitized, suspended, wrapped,
                fileVars >>

-----------------------------------------------------------------------------
(* Bounds of the model *)

MaxCalls == 2          \* execute_with_security calls in one behaviour
MaxTicks == 1          \* clock advances in one behaviour
MaxIterations == 2     \* largest max_iterations an Agent is built with
MaxToolCalls == 2      \* tool-call requests in one assistant reply
MaxTurns == 1          \* process_message calls in one behaviour
RecursionLimit == 2    \* nested calls before RecursionError (scaled)
MaxConcurrent == 2     \* process_message calls in flight at once
MaxLoggers == 2        \* AuditLogger instances constructed in the process
MaxWrites == 2         \* entries written to the audit log
MaxClears == 2         \* clear_logs calls
MaxReads == 1          \* get_recent_logs calls
MaxLimit == 2          \* largest limit given to get_recent_logs
max_chat_history == 4  \* config.max_chat_history, scaled to the model

-----------------------------------------------------------------------------
(* Tool names *)

\* the characters of the tool names of the model; test_tool and
\* nonexistent_tool are names that TOOL_PERMISSIONS does not list
CHARS ==
    [ echo |-> << "e","c","h","o" >>,
      read_file |-> << "r","e","a","d","_","f","i","l","e" >>,
      get_system_info |->
          << "g","e","t","_","s","y","s","t","e","m","_","i","n","f","o" >>,
      write_file |-> << "w","r","i","t","e","_","f","i","l","e" >>,
      click_mouse |-> << "c","l","i","c","k","_","m","o","u","s","e" >>,
      delete_file |-> << "d","e","l","e","t","e","_","f","i","l","e" >>,
      kill_process |-> << "k","i","l","l","_","p","r","o","c","e","s","s" >>,
      write_registry_key |->
          << "w","r","i","t","e","_","r","e","g","i","s","t","r","y","_",
             "k","e","y" >>,
      test_tool |-> << "t","e","s","t","_","t","o","o","l" >>,
      nonexistent_tool |->
          << "n","o","n","e","x","i","s","t","e","n","t","_","t","o","o","l" >> ]

None == "None"

-----------------------------------------------------------------------------
(* PermissionManager *)

PermissionLevel == { "basic", "advanced", "admin" }

\* the entries of the class attribute for the tool names of the model
TOOL_PERMISSIONS ==
    [ read_file |-> "basic", get_system_info |-> "basic", echo |-> "basic",
      write_file |-> "advanced", click_mouse |-> "advanced",
      delete_file |-> "admin", kill_process |-> "admin",
      write_registry_key |-> "admin" ]

get_tool_permission_level(tool_name) ==
    IF tool_name \in DOMAIN TOOL_PERMISSIONS
    THEN TOOL_PERMISSIONS[tool_name]
    ELSE "advanced"

level_hierarchy_swapped == [ basic |-> 0, advanced |-> 2, admin |-> 1 ]

level_hierarchy == [ basic |-> 0, advanced |-> 1, admin |-> 2 ]

check_permission(current, tool_name, required_level) ==
    LET required == IF required_level = None
                    THEN get_tool_permission_level(tool_name)
                    ELSE required_level
    IN  level_hierarchy[current] >= level_hierarchy[required]

\* request_elevation: is_admin is what the OS answers to is_admin(), and
\* platform_ok the outcome of the platform's elevation flow (UAC, sudo,
\* osascript; FALSE also for an unknown platform or an exception).  The
\* method writes _is_elevated only.
request_elevation(elevated, is_admin, platform_ok) ==
    IF is_admin
    THEN [ success |-> TRUE, elevated |-> TRUE ]
    ELSE [ success |-> platform_ok,
           elevated |-> IF platform_ok THEN TRUE ELSE elevated ]

-----------------------------------------------------------------------------
(* Strings as sequences of characters *)

UPPER == << "A","B","C","D","E","F","G","H","I","J","K","L","M",
            "N","O","P","Q","R","S","T","U","V","W","X","Y","Z" >>
LOWER == << "a","b","c","d","e","f","g","h","i","j","k","l","m",
            "n","o","p","q","r","s","t","u","v","w","x","y","z" >>

\* the lower-case letter of each upper-case letter
TO_LOWER ==
    [ c \in { UPPER[j] : j \in 1..26 } |->
        LOWER[CHOOSE j \in 1..26 : UPPER[j] = c] ]

\* str.lower()
lower(s) ==
    [ i \in 1..Len(s) |->
        IF s[i] \in DOMAIN TO_LOWER THEN TO_LOWER[s[i]] ELSE s[i] ]

\* the Python test "k in s" on strings
Contains(s, k) ==
    \E i \in 1..(Len(s) - Len(k) + 1) : SubSeq(s, i, i + Len(k) - 1) = k

-----------------------------------------------------------------------------
(* ToolRegistry *)

\* a tool object: two objects with the same name differ by id
Tool(name, id) == [ name |-> name, id |-> id ]

IdleRegistryCall ==
    [ op |-> "none", name |-> "", tool |-> Tool("", 0), raised |-> None,
      before |-> << >> ]

-----------------------------------------------------------------------------
(* Parameter structures: a scalar, a dict or a list, tagged by its type *)

Scalar(s) == [ t |-> "scalar", v |-> s ]

Dict(f) == [ t |-> "dict", v |-> f ]

List(q) == [ t |-> "list", v |-> q ]

NoParams == Scalar("")

NotSanitized == Scalar("not sanitized")

-----------------------------------------------------------------------------
(* ConfirmationManager *)

_cache_duration == 3600

sensitive_keywords ==
    { << "d","e","l","e","t","e" >>, << "k","i","l","l" >>,
      << "s","h","u","t","d","o","w","n" >>, << "w","r","i","t","e" >>,
      << "m","o","v","e" >>, << "t","y","p","e" >>,
      << "c","l","i","c","k" >>, << "p","r","e","s","s" >>,
      << "h","o","t","k","e","y" >>, << "d","r","a","g" >>,
      << "r","e","g","i","s","t","r","y" >>,
      << "s","e","r","v","i","c","e" >>, << "s","y","s","t","e","m" >> }

\* any(keyword in tool_lower for keyword in sensitive_keywords), with
\* tool_lower = tool_name.lower(), tabulated over the names of the model
matches_sensitive_keyword ==
    [ tool_name \in DOMAIN CHARS |->
        LET tool_lower == lower(CHARS[tool_name])
        IN  \E keyword \in sensitive_keywords :
                Contains(tool_lower, keyword) ]

is_confirmation_required_ignores_switch(tool_name) ==
    IF sensitive_actions_require_confirmation
       /\ matches_sensitive_keyword[tool_name]
    THEN TRUE
    ELSE FALSE

is_confirmation_required(tool_name) ==
    IF ~require_confirmation
    THEN FALSE
    ELSE IF sensitive_actions_require_confirmation
            /\ matches_sensitive_keyword[tool_name]
         THEN TRUE
         ELSE FALSE

\* cache_decision: the dict after self._decision_cache[tool_name] = (...)
cache_decision(cache, tool_name, decision, duration) ==
    [ n \in DOMAIN cache \cup { tool_name } |->
        IF n = tool_name
        THEN [ decision |-> decision, expiry |-> now + duration ]
        ELSE cache[n] ]

get_cached_decision_inclusive(cache, tool_name) ==
    IF tool_name \notin DOMAIN cache
    THEN [ is_none |-> TRUE, value |-> FALSE, cache |-> cache ]
    ELSE IF now >= cache[tool_name].expiry
         THEN [ is_none |-> TRUE, value |-> FALSE,
                cache |-> [ n \in DOMAIN cache \ { tool_name } |-> cache[n] ] ]
         ELSE [ is_none |-> FALSE, value |-> cache[tool_name].decision,
                cache |-> cache ]

\* get_cached_decision: the value returned (None, or the cached BOOLEAN) and
\* the dict it leaves (an expired entry is deleted)
get_cached_decision(cache, tool_name) ==
    IF tool_name \notin DOMAIN cache
    THEN [ is_none |-> TRUE, value |-> FALSE, cache |-> cache ]
    ELSE IF now > cache[tool_name].expiry
         THEN [ is_none |-> TRUE, value |-> FALSE,
                cache |-> [ n \in DOMAIN cache \ { tool_name } |-> cache[n] ] ]
         ELSE [ is_none |-> FALSE, value |-> cache[tool_name].decision,
                cache |-> cache ]

request_confirmation_always_prompt(cache, tool_name, user_decision, remember_choice) ==
    [ confirmed |-> user_decision,
      prompted |-> TRUE,
      cache |-> IF remember_choice
                THEN cache_decision(cache, tool_name, user_decision,
                                    _cache_duration)
                ELSE cache ]

request_confirmation_always_remembers(cache, tool_name, user_decision, remember_choice) ==
    LET cached == get_cached_decision(cache, tool_name)
    IN  IF ~cached.is_none
        THEN [ confirmed |-> cached.value,
               prompted |-> FALSE,
               cache |-> cached.cache ]
        ELSE [ confirmed |-> user_decision,
               prompted |-> TRUE,
               cache |-> cache_decision(cached.cache, tool_name,
                                        user_decision, _cache_duration) ]

\* request_confirmation: user_decision and remember_choice are what the
\* ConfirmationDialog answers if it is shown
request_confirmation(cache, tool_name, user_decision, remember_choice) ==
    LET cached == get_cached_decision(cache, tool_name)
    IN  IF ~cached.is_none
        THEN [ confirmed |-> cached.value,
               prompted |-> FALSE,
               cache |-> cached.cache ]
        ELSE [ confirmed |-> user_decision,
               prompted |-> TRUE,
               cache |-> IF remember_choice
                         THEN cache_decision(cached.cache, tool_name,
                                             user_decision, _cache_duration)
                         ELSE cached.cache ]

-----------------------------------------------------------------------------
(* AuditLogger: each write appends one line to the live log, or nothing    *)
(* when auditing is disabled.  An entry keeps the fields that the pipeline *)
(* decides; the timestamp, the execution time and the sanitized parameters *)
(* are not part of the entries of this model.                              *)

AuditWrite(log, entry) == IF ~enabled THEN log ELSE Append(log, entry)

log_tool_execution(log, tool_name, result, success, user_confirmed) ==
    AuditWrite(log,
        IF success
        THEN [ event_type |-> "tool_execution", tool_name |-> tool_name,
               success |-> success, user_confirmed |-> user_confirmed,
               permission_level |-> _current_level,
               result_summary |-> result ]
        ELSE [ event_type |-> "tool_execution", tool_name |-> tool_name,
               success |-> success, user_confirmed |-> user_confirmed,
               permission_level |-> _current_level,
               error |-> result ])

log_permission_denied_twice(log, tool_name, required_level, current_level) ==
    LET entry == [ event_type |-> "permission_denied",
                   tool_name |-> tool_name,
                   required_level |-> required_level,
                   current_level |-> current_level ]
    IN  AuditWrite(AuditWrite(log, entry), entry)

log_permission_denied(log, tool_name, required_level, current_level) ==
    AuditWrite(log,
        [ event_type |-> "permission_denied", tool_name |-> tool_name,
          required_level |-> required_level,
          current_level |-> current_level ])

log_elevation_request(log, success, reason) ==
    AuditWrite(log,
        [ event_type |-> "elevation_request", success |-> success,
          reason |-> reason ])

log_user_confirmation(log, tool_name, confirmed) ==
    AuditWrite(log,
        [ event_type |-> "user_confirmation", tool_name |-> tool_name,
          confirmed |-> confirmed, cached |-> FALSE ])

-----------------------------------------------------------------------------
(* SecurityMiddleware.execute_with_security                                *)

\* one tool of each kind: permitted at every level without and with
\* confirmation, admin only, and absent from TOOL_PERMISSIONS
SecurityTools ==
    { "read_file", "get_system_info", "delete_file", "test_tool" }

ToolResults == { [ success |-> TRUE, result |-> "test result" ] }

\* the keyword arguments of a call
ToolArguments == { [ test_param |-> "value" ] }

\* what a tool's execute may raise: any Exception, the builtin
\* PermissionError among them
ToolErrors == { "Exception", "PermissionError" }

NoResult == [ success |-> FALSE ]

\* The frame of an execute_with_security call: pc, tool, user_confirmed and
\* the exit (outcome, exception, result) are the call's own; the other
\* fields record what the call met and did, for the properties.
IdleCall ==
    [ pc |-> "idle", tool |-> "", kwargs |-> << >>,
      user_confirmed |-> FALSE,
      outcome |-> "none", exception |-> None, result |-> NoResult,
      log_base |-> 0, exec_base |-> 0, at |-> 0, level_before |-> "basic",
      cache_before |-> << >>, cached_since |-> -1, permitted |-> FALSE,
      elevation |-> "none", confirmation |-> "none", prompted |-> FALSE,
      remember |-> FALSE, outer |-> << >> ]

PermissionPhase_no_recheck(tool_name, is_admin, platform_ok) ==
    LET required_level == get_tool_permission_level(tool_name)
        elevation == request_elevation(_is_elevated, is_admin, platform_ok)
        reason == << "Required for ", tool_name >>
        permitted == check_permission(_current_level, tool_name,
                                      required_level)
    IN  IF ~permitted
        THEN IF required_level = "admin"
             THEN LET log1 == log_elevation_request(audit_log,
                                  elevation.success, reason)
                  IN  IF ~elevation.success
                      THEN [ granted |-> FALSE, permitted |-> permitted,
                             elevated |-> elevation.elevated,
                             elevation |-> "refused",
                             log |-> log_permission_denied(log1, tool_name,
                                         required_level, _current_level) ]
                      ELSE [ granted |-> TRUE, permitted |-> permitted,
                             elevated |-> elevation.elevated,
                             elevation |-> IF is_admin THEN "already_admin"
                                                       ELSE "granted",
                             log |-> log1 ]
             ELSE [ granted |-> FALSE, permitted |-> permitted,
                    elevated |-> _is_elevated, elevation |-> "none",
                    log |-> log_permission_denied(audit_log, tool_name,
                                required_level, _current_level) ]
        ELSE [ granted |-> TRUE, permitted |-> permitted,
               elevated |-> _is_elevated, elevation |-> "none",
               log |-> audit_log ]

PermissionPhase_always_elevates(tool_name, is_admin, platform_ok) ==
    LET required_level == get_tool_permission_level(tool_name)
        elevation == request_elevation(_is_elevated, is_admin, platform_ok)
        reason == << "Required for ", tool_name >>
        permitted == check_permission(_current_level, tool_name,
                                      required_level)
    IN  IF ~permitted
        THEN LET log1 == log_elevation_request(audit_log,
                             elevation.success, reason)
             IN  [ granted |-> FALSE, permitted |-> permitted,
                   elevated |-> elevation.elevated,
                   elevation |-> IF ~elevation.success THEN "refused"
                                 ELSE IF is_admin THEN "already_admin"
                                      ELSE "granted",
                   log |-> log_permission_denied(log1, tool_name,
                               required_level, _current_level) ]
        ELSE [ granted |-> TRUE, permitted |-> permitted,
               elevated |-> _is_elevated, elevation |-> "none",
               log |-> audit_log ]

\* Steps 2-5 of the pipeline: the permission check with the elevation
\* attempt.  granted: no PermissionError, the call goes on to step 6.
PermissionPhase(tool_name, is_admin, platform_ok) ==
    LET required_level == get_tool_permission_level(tool_name)
        elevation == request_elevation(_is_elevated, is_admin, platform_ok)
        reason == << "Required for ", tool_name >>
        permitted == check_permission(_current_level, tool_name,
                                      required_level)
    IN  IF ~permitted
        THEN IF required_level = "admin"
             THEN LET log1 == log_elevation_request(audit_log,
                                  elevation.success, reason)
                  IN  IF ~elevation.success
                      THEN [ granted |-> FALSE, permitted |-> permitted,
                             elevated |-> elevation.elevated,
                             elevation |-> "refused",
                             log |-> log_permission_denied(log1, tool_name,
                                         required_level, _current_level) ]
                      ELSE IF _current_level # "admin"
                           THEN [ granted |-> FALSE, permitted |-> permitted,
                                  elevated |-> elevation.elevated,
                                  elevation |-> IF is_admin
                                                THEN "already_admin"
                                                ELSE "granted",
                                  log |-> log_permission_denied(log1,
                                              tool_name, required_level,
                                              _current_level) ]
                           ELSE [ granted |-> TRUE, permitted |-> permitted,
                                  elevated |-> elevation.elevated,
                                  elevation |-> IF is_admin
                                                THEN "already_admin"
                                                ELSE "granted",
                                  log |-> log1 ]
             ELSE [ granted |-> FALSE, permitted |-> permitted,
                    elevated |-> _is_elevated, elevation |-> "none",
                    log |-> log_permission_denied(audit_log, tool_name,
                                required_level, _current_level) ]
        ELSE [ granted |-> TRUE, permitted |-> permitted,
               elevated |-> _is_elevated, elevation |-> "none",
               log |-> audit_log ]

CancelledResult ==
    [ success |-> FALSE, error |-> "User denied execution of tool",
      message |-> "Action cancelled by user" ]

ConfirmationPhase_ignores_denial(log, tool_name, user_decision, remember_choice) ==
    IF is_confirmation_required(tool_name)
    THEN LET conf == request_confirmation(_decision_cache, tool_name,
                                          user_decision, remember_choice)
             log2 == log_user_confirmation(log, tool_name, conf.confirmed)
         IN  [ required |-> TRUE, user_confirmed |-> conf.confirmed,
               prompted |-> conf.prompted, cache |-> conf.cache,
               cancelled |-> FALSE, log |-> log2 ]
    ELSE [ required |-> FALSE, user_confirmed |-> FALSE,
           prompted |-> FALSE, cache |-> _decision_cache,
           cancelled |-> FALSE, log |-> log ]

\* Steps 6-8 of the pipeline: the confirmation.  cancelled: the call
\* returns the "cancelled by user" result instead of executing the tool.
ConfirmationPhase(log, tool_name, user_decision, remember_choice) ==
    IF is_confirmation_required(tool_name)
    THEN LET conf == request_confirmation(_decision_cache, tool_name,
                                          user_decision, remember_choice)
             log2 == log_user_confirmation(log, tool_name, conf.confirmed)
         IN  IF ~conf.confirmed
             THEN [ required |-> TRUE, user_confirmed |-> conf.confirmed,
                    prompted |-> conf.prompted, cache |-> conf.cache,
                    cancelled |-> TRUE,
                    log |-> log_tool_execution(log2, tool_name,
                                "User denied execution of tool",
                                FALSE, FALSE) ]
             ELSE [ required |-> TRUE, user_confirmed |-> conf.confirmed,
                    prompted |-> conf.prompted, cache |-> conf.cache,
                    cancelled |-> FALSE, log |-> log2 ]
    ELSE [ required |-> FALSE, user_confirmed |-> FALSE,
           prompted |-> FALSE, cache |-> _decision_cache,
           cancelled |-> FALSE, log |-> log ]

\* The body of execute_with_security from its entry to its first suspension
\* (the await of tool.execute) or to its exit, whichever comes first, in a
\* frame whose enclosing frames are outer.  tool.execute is the tool's own
\* body unless wrap_tool has replaced it.
Pipeline_confirms_first(outer, tool_name, kwargs, is_admin, platform_ok, user_decision, remember_choice) ==
    LET conf == ConfirmationPhase(audit_log, tool_name, user_decision,
                                  remember_choice)
        frame == [ IdleCall EXCEPT
                     !.outer = outer,
                     !.tool = tool_name,
                     !.kwargs = kwargs,
                     !.log_base = Len(audit_log),
                     !.exec_base = Len(executions),
                     !.at = now,
                     !.level_before = _current_level,
                     !.cache_before = _decision_cache,
                     !.cached_since =
                         IF tool_name \in DOMAIN cached_at
                         THEN cached_at[tool_name] ELSE -1,
                     !.user_confirmed = conf.user_confirmed,
                     !.prompted = conf.prompted,
                     !.remember = conf.prompted /\ remember_choice,
                     !.confirmation =
                         IF ~conf.required THEN "none"
                         ELSE IF conf.user_confirmed
                              THEN "allowed" ELSE "denied" ]
    IN  /\ _decision_cache' = conf.cache
        /\ cached_at' =
               IF conf.prompted /\ remember_choice
               THEN [ n \in DOMAIN cached_at \cup { tool_name } |->
                        IF n = tool_name THEN now ELSE cached_at[n] ]
               ELSE cached_at
        /\ IF conf.cancelled
           THEN /\ audit_log' = conf.log
                /\ call' = [ frame EXCEPT !.outcome = "returned",
                                          !.result = CancelledResult ]
                /\ UNCHANGED << _is_elevated, executions >>
           ELSE LET perm == PermissionPhase(tool_name, is_admin, platform_ok)
                    frame2 == [ frame EXCEPT
                                  !.permitted = perm.permitted,
                                  !.elevation = perm.elevation ]
                IN  /\ _is_elevated' = perm.elevated
                    /\ audit_log' =
                           conf.log \o SubSeq(perm.log, Len(audit_log) + 1,
                                              Len(perm.log))
                    /\ IF ~perm.granted
                       THEN /\ call' = [ frame2 EXCEPT
                                           !.outcome = "raised",
                                           !.exception = "PermissionError" ]
                            /\ UNCHANGED executions
                       ELSE /\ call' = [ frame2 EXCEPT !.pc = "executing" ]
                            /\ executions' =
                                   IF tool_name \in wrapped
                                   THEN executions
                                   ELSE Append(executions,
                                            [ tool |-> tool_name,
                                              kwargs |-> kwargs,
                                              secured |-> TRUE ])
        /\ UNCHANGED << _current_level, require_confirmation,
                        sensitive_actions_require_confirmation, now, enabled,
                        ticks >>
        /\ UNCHANGED << agentVars, otherVars >>

Pipeline(outer, tool_name, kwargs, is_admin, platform_ok, user_decision, remember_choice) ==
    LET perm == PermissionPhase(tool_name, is_admin, platform_ok)
        conf == ConfirmationPhase(perm.log, tool_name, user_decision,
                                  remember_choice)
        frame == [ IdleCall EXCEPT
                     !.outer = outer,
                     !.tool = tool_name,
                     !.kwargs = kwargs,
                     !.log_base = Len(audit_log),
                     !.exec_base = Len(executions),
                     !.at = now,
                     !.level_before = _current_level,
                     !.cache_before = _decision_cache,
                     !.cached_since =
                         IF tool_name \in DOMAIN cached_at
                         THEN cached_at[tool_name] ELSE -1,
                     !.permitted = perm.permitted,
                     !.elevation = perm.elevation ]
    IN  /\ _is_elevated' = perm.elevated
        /\ IF ~perm.granted
           THEN /\ audit_log' = perm.log
                /\ call' = [ frame EXCEPT !.outcome = "raised",
                                          !.exception = "PermissionError" ]
                /\ UNCHANGED << _decision_cache, cached_at, executions >>
           ELSE /\ audit_log' = conf.log
                /\ _decision_cache' = conf.cache
                /\ cached_at' =
                       IF conf.prompted /\ remember_choice
                       THEN [ n \in DOMAIN cached_at \cup { tool_name } |->
                                IF n = tool_name THEN now
                                                 ELSE cached_at[n] ]
                       ELSE cached_at
                /\ LET frame2 ==
                           [ frame EXCEPT
                               !.user_confirmed = conf.user_confirmed,
                               !.prompted = conf.prompted,
                               !.remember = conf.prompted /\ remember_choice,
                               !.confirmation =
                                   IF ~conf.required THEN "none"
                                   ELSE IF conf.user_confirmed
                                        THEN "allowed" ELSE "denied" ]
                   IN  IF conf.cancelled
                       THEN /\ call' = [ frame2 EXCEPT
                                           !.outcome = "returned",
                                           !.result = CancelledResult ]
                            /\ UNCHANGED executions
                       ELSE /\ call' = [ frame2 EXCEPT !.pc = "executing" ]
                            /\ executions' =
                                   IF tool_name \in wrapped
                                   THEN executions
                                   ELSE Append(executions,
                                            [ tool |-> tool_name,
                                              kwargs |-> kwargs,
                                              secured |-> TRUE ])
        /\ UNCHANGED << _current_level, require_confirmation,
                        sensitive_actions_require_confirmation, now, enabled,
                        ticks >>
        /\ UNCHANGED << agentVars, otherVars >>

\* a caller awaits execute_with_security(tool, **kwargs)
ExecuteWithSecurity(tool_name, kwargs, is_admin, platform_ok, user_decision, remember_choice) ==
    /\ call.pc = "idle"
    /\ call.outer = << >>
    /\ calls < MaxCalls
    /\ calls' = calls + 1
    /\ Pipeline(<< >>, tool_name, kwargs, is_admin, platform_ok,
                user_decision, remember_choice)

ToolExecuteReturns_drops_result(result) ==
    /\ call.pc = "executing"
    /\ call.tool \notin wrapped
    /\ audit_log' = log_tool_execution(audit_log, call.tool, result,
                                       TRUE, call.user_confirmed)
    /\ call' = [ call EXCEPT !.pc = "idle", !.outcome = "returned",
                             !.result = NoResult ]
    /\ UNCHANGED << _current_level, _is_elevated, require_confirmation,
                    sensitive_actions_require_confirmation, _decision_cache,
                    now, enabled, cached_at, calls, ticks,
                    executions >>
    /\ UNCHANGED << agentVars, otherVars >>

\* tool.execute returns: steps 10 and 11
ToolExecuteReturns(result) ==
    /\ call.pc = "executing"
    /\ call.tool \notin wrapped
    /\ audit_log' = log_tool_execution(audit_log, call.tool, result,
                                       TRUE, call.user_confirmed)
    /\ call' = [ call EXCEPT !.pc = "idle", !.outcome = "returned",
                             !.result = result ]
    /\ UNCHANGED << _current_level, _is_elevated, require_confirmation,
                    sensitive_actions_require_confirmation, _decision_cache,
                    now, enabled, cached_at, calls, ticks,
                    executions >>
    /\ UNCHANGED << agentVars, otherVars >>

\* tool.execute raises: "except PermissionError: raise" comes before
\* "except Exception", which logs the failure and re-raises
ToolExecuteRaises(error) ==
    /\ call.pc = "executing"
    /\ call.tool \notin wrapped
    /\ audit_log' = IF error = "PermissionError"
                    THEN audit_log
                    ELSE log_tool_execution(audit_log, call.tool, error,
                                            FALSE, call.user_confirmed)
    /\ call' = [ call EXCEPT !.pc = "idle", !.outcome = "raised",
                             !.exception = error ]
    /\ UNCHANGED << _current_level, _is_elevated, require_confirmation,
                    sensitive_actions_require_confirmation, _decision_cache,
                    now, enabled, cached_at, calls, ticks,
                    executions >>
    /\ UNCHANGED << agentVars, otherVars >>

\* The task that awaits the call is cancelled while tool.execute runs (the
\* caller's asyncio.wait_for has timed out): CancelledError is thrown into
\* the coroutine at the await.  It is a BaseException, which neither
\* "except PermissionError" nor "except Exception" catches.
ToolExecuteCancelled ==
    /\ call.pc = "executing"
    /\ call.tool \notin wrapped
    /\ call' = [ call EXCEPT !.pc = "idle", !.outcome = "cancelled",
                             !.exception = "CancelledError" ]
    /\ UNCHANGED << _current_level, _is_elevated, require_confirmation,
                    sensitive_actions_require_confirmation, _decision_cache,
                    now, enabled, audit_log, cached_at, calls, ticks,
                    executions >>
    /\ UNCHANGED << agentVars, otherVars >>

\* ConfirmationManager.clear_cache
clear_cache ==
    /\ call.pc = "idle"
    /\ _decision_cache # << >>
    /\ _decision_cache' = << >>
    /\ UNCHANGED << _current_level, _is_elevated, require_confirmation,
                    sensitive_actions_require_confirmation, now, enabled,
                    audit_log, call, cached_at, calls, ticks,
                    executions >>
    /\ UNCHANGED << agentVars, otherVars >>

\* The wall clock advances.  time.time() is read at the entry of a call
\* only, so an advance during the await of tool.execute is observed as an
\* advance right after it; and the code compares the clock with the expiry
\* of a cached decision only, so an advance while nothing is cached is a
\* shift of the time origin; an advance after the last call of a behaviour
\* is read by nothing.
TimeSteps == { 1, _cache_duration, _cache_duration + 1 }

Tick(d) ==
    /\ call.pc = "idle"
    /\ _decision_cache # << >>
    /\ calls < MaxCalls
    /\ ticks < MaxTicks
    /\ ticks' = ticks + 1
    /\ now' = now + d
    /\ UNCHANGED << _current_level, _is_elevated, require_confirmation,
                    sensitive_actions_require_confirmation, _decision_cache,
                    enabled, audit_log, call, cached_at, calls,
                    executions >>
    /\ UNCHANGED << agentVars, otherVars >>

-----------------------------------------------------------------------------
(* Agent: messages and the frame of a process_message call *)

\* The content of a message: text is the string, kind and tool tell which
\* template of the code produced it ("result": str(result), "error":
\* "Error executing tool '<tool>': <text>", "occurred": "An error occurred:
\* <text>").
Text(t) == [ kind |-> "text", tool |-> "", text |-> t ]

NoText == [ kind |-> "none", tool |-> "", text |-> "" ]

Message(role, content) ==
    [ role |-> role, content |-> content, tool_call_id |-> "",
      name |-> "", tool_calls |-> << >> ]

SystemMessage == Message("system", Text("You are a helpful AI assistant"))

Apology ==
    Text("I apologize, but I've reached the maximum number of tool execution steps.")

_format_tool_result(tool_call_id, tool_name, result) ==
    [ role |-> "tool", content |-> [ kind |-> "result", tool |-> "",
                                     text |-> result ],
      tool_call_id |-> tool_call_id, name |-> tool_name,
      tool_calls |-> << >> ]

_format_tool_error_no_id(tool_call_id, tool_name, error) ==
    [ role |-> "tool", content |-> [ kind |-> "error", tool |-> tool_name,
                                     text |-> error ],
      tool_call_id |-> "", name |-> tool_name, tool_calls |-> << >> ]

_format_tool_error(tool_call_id, tool_name, error) ==
    [ role |-> "tool", content |-> [ kind |-> "error", tool |-> tool_name,
                                     text |-> error ],
      tool_call_id |-> tool_call_id, name |-> tool_name,
      tool_calls |-> << >> ]

\* the frame of a call of an AuditLogger method: none yet
IdleAuditCall ==
    [ op |-> "none", logger |-> 0, limit |-> 0, entry |-> << >>,
      returned |-> << >>, raised |-> None, before |-> << >> ]

IdleTurn ==
    [ pc |-> "idle", iteration |-> 0, pending |-> << >>,
      current |-> [ id |-> "", name |-> "" ],
      returned |-> NoText, exit |-> "none", model_calls |-> 0,
      deadline_passed |-> FALSE, base |-> 0 ]

\* no AuditLogger constructed, no file
InitFiles ==
    /\ fs = << >>
    /\ inodes = << >>
    /\ handlers = << >>
    /\ loggers = << >>
    /\ audit_call = IdleAuditCall
    /\ clears = 0
    /\ reads = 0
    /\ written = << >>

\* no process_message call suspended, no tool wrapped
InitRest ==
    /\ suspended = << >>
    /\ wrapped = { }
    /\ os_name = "posix"
    /\ InitFiles

\* the state of the security pipeline after the construction of its managers
InitSecurityState ==
    /\ _current_level \in PermissionLevel
    /\ _is_elevated = FALSE
    /\ require_confirmation \in BOOLEAN
    /\ sensitive_actions_require_confirmation \in BOOLEAN
    /\ _decision_cache = << >>
    /\ now = 0
    /\ enabled \in BOOLEAN
    /\ audit_log = << >>
    /\ call = IdleCall
    /\ cached_at = << >>
    /\ calls = 0
    /\ ticks = 0
    /\ executions = << >>

InitSecurity ==
    /\ InitSecurityState
    /\ max_iterations = 0
    /\ registry = << >>
    /\ conversation_history = << >>
    /\ turn = IdleTurn
    /\ turns = 0
    /\ registry_call = IdleRegistryCall
    /\ params = NoParams
    /\ sanitized = NotSanitized
    /\ InitRest

\* The answers of the operating system to an elevation request for a call:
\* a call that makes no such request reads none, and one answer stands for
\* all
ElevationAnswers(tool_name) ==
    IF ~check_permission(_current_level, tool_name, None)
       /\ get_tool_permission_level(tool_name) = "admin"
    THEN BOOLEAN
    ELSE { FALSE }

\* The answers of the user to the dialog of a call: likewise for a call that
\* shows no dialog
DialogAnswers(tool_name) ==
    IF is_confirmation_required(tool_name)
       /\ get_cached_decision(_decision_cache, tool_name).is_none
    THEN BOOLEAN
    ELSE { FALSE }

NextSecurity ==
    \/ \E tool_name \in SecurityTools, kwargs \in ToolArguments :
         \E is_admin \in ElevationAnswers(tool_name),
            platform_ok \in ElevationAnswers(tool_name),
            user_decision \in DialogAnswers(tool_name),
            remember_choice \in DialogAnswers(tool_name) :
              ExecuteWithSecurity(tool_name, kwargs, is_admin, platform_ok,
                                  user_decision, remember_choice)
    \/ \E result \in ToolResults : ToolExecuteReturns(result)
    \/ \E error \in ToolErrors : ToolExecuteRaises(error)
    \/ ToolExecuteCancelled
    \/ clear_cache
    \/ \E d \in TimeSteps : Tick(d)

SpecSecurity == InitSecurity /\ [][NextSecurity]_vars

-----------------------------------------------------------------------------
(* SecurityMiddleware.wrap_tool.  After wrap_tool(tool), tool.execute is   *)
(* secure_execute, and that is what line 152 of execute_with_security      *)
(* awaits (original_execute is kept in a local that nothing reads).        *)

\* (a tool is wrapped before it is handed to its callers)
wrap_tool(tool_name) ==
    /\ calls = 0
    /\ tool_name \notin wrapped
    /\ wrapped' = wrapped \cup { tool_name }
    /\ UNCHANGED << securityVars, agentVars, executions, registry_call,
                    params, sanitized, suspended, fileVars >>

\* "result = await tool.execute(**kwargs)" for a wrapped tool: secure_execute
\* awaits execute_with_security(tool, **kwargs) again, in a frame nested in
\* the suspended one
secure_execute(tool_name, is_admin, platform_ok, user_decision, remember_choice) ==
    /\ call.pc = "executing"
    /\ call.tool = tool_name
    /\ call.tool \in wrapped
    /\ Len(call.outer) < RecursionLimit
    /\ Pipeline(Append(call.outer, [ call EXCEPT !.outer = << >> ]),
                call.tool, call.kwargs, is_admin, platform_ok,
                user_decision, remember_choice)
    /\ UNCHANGED calls

\* the interpreter's recursion limit is reached in the innermost frame:
\* RecursionError is an Exception, logged by "except Exception" and re-raised
RaiseRecursionError ==
    /\ call.pc = "executing"
    /\ call.tool \in wrapped
    /\ Len(call.outer) = RecursionLimit
    /\ audit_log' = log_tool_execution(audit_log, call.tool,
                                       "RecursionError", FALSE,
                                       call.user_confirmed)
    /\ call' = [ call EXCEPT !.pc = "idle", !.outcome = "raised",
                             !.exception = "RecursionError" ]
    /\ UNCHANGED << _current_level, _is_elevated, require_confirmation,
                    sensitive_actions_require_confirmation, _decision_cache,
                    now, enabled, cached_at, calls, ticks,
                    executions >>
    /\ UNCHANGED << agentVars, otherVars >>

\* a nested call has ended: the enclosing frame continues after its await of
\* tool.execute with what the nested call returned or raised (steps 10 and
\* 11, or one of the two handlers, or neither for a CancelledError)
Unwind ==
    /\ call.pc = "idle"
    /\ call.outer # << >>
    /\ LET frame == call.outer[Len(call.outer)]
           rest == SubSeq(call.outer, 1, Len(call.outer) - 1)
       IN  IF call.outcome = "returned"
           THEN /\ audit_log' = log_tool_execution(audit_log, frame.tool,
                                    call.result, TRUE, frame.user_confirmed)
                /\ call' = [ frame EXCEPT !.pc = "idle", !.outer = rest,
                                          !.outcome = "returned",
                                          !.result = call.result ]
           ELSE /\ audit_log' =
                       IF call.exception \in { "PermissionError",
                                               "CancelledError" }
                       THEN audit_log
                       ELSE log_tool_execution(audit_log, frame.tool,
                                call.exception, FALSE, frame.user_confirmed)
                /\ call' = [ frame EXCEPT !.pc = "idle", !.outer = rest,
                                          !.outcome = call.outcome,
                                          !.exception = call.exception ]
    /\ UNCHANGED << _current_level, _is_elevated, require_confirmation,
                    sensitive_actions_require_confirmation, _decision_cache,
                    now, enabled, cached_at, calls, ticks,
                    executions >>
    /\ UNCHANGED << agentVars, otherVars >>

\* a middleware whose caller wraps the tools it hands out
InitWrap == InitSecurity

NextWrap ==
    \/ \E tool_name \in SecurityTools : wrap_tool(tool_name)
    \/ \E tool_name \in SecurityTools, kwargs \in ToolArguments :
         \E is_admin \in ElevationAnswers(tool_name),
            platform_ok \in ElevationAnswers(tool_name),
            user_decision \in DialogAnswers(tool_name),
            remember_choice \in DialogAnswers(tool_name) :
              ExecuteWithSecurity(tool_name, kwargs, is_admin, platform_ok,
                                  user_decision, remember_choice)
    \/ \E tool_name \in SecurityTools :
         \E is_admin \in ElevationAnswers(tool_name),
            platform_ok \in ElevationAnswers(tool_name),
            user_decision \in DialogAnswers(tool_name),
            remember_choice \in DialogAnswers(tool_name) :
              secure_execute(tool_name, is_admin, platform_ok, user_decision,
                             remember_choice)
    \/ RaiseRecursionError
    \/ Unwind
    \/ \E result \in ToolResults : ToolExecuteReturns(result)
    \/ \E error \in ToolErrors : ToolExecuteRaises(error)
    \/ ToolExecuteCancelled

SpecWrap == InitWrap /\ [][NextWrap]_vars

-----------------------------------------------------------------------------
(* Agent.process_message.  An action runs the code from one suspension     *)
(* (the await of the model backend, the await of asyncio.wait_for around a *)
(* tool) to the next or to the return.                                     *)

\* the tool-call requests a reply of the model may carry
ToolCallRequests ==
    { [ id |-> "call_1", name |-> "delete_file" ],
      [ id |-> "call_2", name |-> "nonexistent_tool" ] }

ToolCallLists ==
    UNION { [ 1..n -> ToolCallRequests ] : n \in 0..MaxToolCalls }

ReplyContents == { "answer" }

\* response.get('message', {}): what the backend sent, appended as it is.
\* The role is the backend's; a reply of a role other than assistant is
\* taken here without tool calls.
ModelReplyMessages ==
    { [ role |-> "assistant", content |-> Text(c), tool_call_id |-> "",
        name |-> "", tool_calls |-> tcs ] :
      c \in ReplyContents, tcs \in ToolCallLists }
    \cup { Message("system", Text(c)) : c \in ReplyContents }

ModelErrors == { "connection refused" }

AgentToolResults == { "hi" }

AgentToolErrors == { "Exception" }

LoopHead_off_by_one(fr) ==
    IF fr.iteration <= max_iterations
    THEN [ fr EXCEPT !.pc = "model_call", !.model_calls = @ + 1 ]
    ELSE [ fr EXCEPT !.pc = "done", !.returned = Apology,
                     !.exit = "max_iterations" ]

\* the head of "for iteration in range(self.max_iterations)": the next model
\* call, or the return after the loop
LoopHead(fr) ==
    IF fr.iteration < max_iterations
    THEN [ fr EXCEPT !.pc = "model_call", !.model_calls = @ + 1 ]
    ELSE [ fr EXCEPT !.pc = "done", !.returned = Apology,
                     !.exit = "max_iterations" ]

RECURSIVE RunToolCalls(_, _)
\* "for tool_call in tool_calls: await self._execute_tool_call(tool_call)"
\* from the request at the head of fr.pending: a request for a name that
\* the registry does not hold is answered without suspending; a registered
\* tool suspends the loop in asyncio.wait_for
RunToolCalls(history, fr) ==
    IF fr.pending = << >>
    THEN [ history |-> history,
           turn |-> LoopHead([ fr EXCEPT !.iteration = @ + 1 ]) ]
    ELSE LET tool_call == Head(fr.pending)
             rest == [ fr EXCEPT !.pending = Tail(@) ]
         IN  IF tool_call.name \notin DOMAIN registry
             THEN RunToolCalls(
                      Append(history,
                             _format_tool_error(tool_call.id, tool_call.name,
                                                "not found in registry")),
                      rest)
             ELSE [ history |-> history,
                    turn |-> [ rest EXCEPT !.pc = "awaiting_tool",
                                           !.current = tool_call,
                                           !.deadline_passed = FALSE ] ]

\* the tool bodies started by a step that leaves the loop in new_turn:
\* _execute_tool_call awaits tool.execute(**arguments) itself (the requests
\* of the model carry no arguments)
StartedExecutions(new_turn) ==
    IF new_turn.pc = "awaiting_tool"
    THEN Append(executions,
                [ tool |-> new_turn.current.name, kwargs |-> << >>,
                  secured |-> FALSE ])
    ELSE executions

process_message(user_message) ==
    /\ turn.pc \in { "idle", "done" }
    /\ turns < MaxTurns
    /\ turns' = turns + 1
    /\ conversation_history' =
           Append(conversation_history, Message("user", Text(user_message)))
    /\ turn' = LoopHead([ IdleTurn EXCEPT
                            !.base = Len(conversation_history) ])
    /\ UNCHANGED << max_iterations, registry, executions >>
    /\ UNCHANGED << securityVars, otherVars >>

\* chat_with_tools returns a response
ModelReplies(message) ==
    /\ turn.pc = "model_call"
    /\ LET history == Append(conversation_history, message)
       IN  IF message.tool_calls = << >>
           THEN /\ conversation_history' = history
                /\ turn' = [ turn EXCEPT !.pc = "done",
                                         !.returned = message.content,
                                         !.exit = "reply" ]
                /\ UNCHANGED executions
           ELSE LET next == RunToolCalls(history,
                                [ turn EXCEPT !.pending = message.tool_calls ])
                IN  /\ conversation_history' = next.history
                    /\ turn' = next.turn
                    /\ executions' = StartedExecutions(next.turn)
    /\ UNCHANGED << max_iterations, registry, turns >>
    /\ UNCHANGED << securityVars, otherVars >>

ModelRaises_continues(error) ==
    /\ turn.pc = "model_call"
    /\ LET error_message == [ kind |-> "occurred", tool |-> "",
                              text |-> error ]
       IN  /\ conversation_history' =
                  Append(conversation_history,
                         Message("assistant", error_message))
           /\ turn' = LoopHead([ turn EXCEPT !.iteration = @ + 1,
                                             !.returned = error_message,
                                             !.exit = "error" ])
    /\ UNCHANGED << max_iterations, registry, turns, executions >>
    /\ UNCHANGED << securityVars, otherVars >>

\* chat_with_tools raises
ModelRaises(error) ==
    /\ turn.pc = "model_call"
    /\ LET error_message == [ kind |-> "occurred", tool |-> "",
                              text |-> error ]
       IN  /\ conversation_history' =
                  Append(conversation_history,
                         Message("assistant", error_message))
           /\ turn' = [ turn EXCEPT !.pc = "done",
                                    !.returned = error_message,
                                    !.exit = "error" ]
    /\ UNCHANGED << max_iterations, registry, turns, executions >>
    /\ UNCHANGED << securityVars, otherVars >>

\* the rest of _execute_tool_call once the tool message is known, and the
\* loop up to its next suspension
FinishToolCall(tool_message) ==
    LET next == RunToolCalls(Append(conversation_history, tool_message),
                             turn)
    IN  /\ conversation_history' = next.history
        /\ turn' = next.turn
        /\ executions' = StartedExecutions(next.turn)
        /\ UNCHANGED << max_iterations, registry, turns >>
        /\ UNCHANGED << securityVars, otherVars >>

\* tool.execute returns
ToolReturns(result) ==
    /\ turn.pc = "awaiting_tool"
    /\ FinishToolCall(_format_tool_result(turn.current.id,
                                          turn.current.name, result))

\* tool.execute raises an Exception
ToolRaises(error) ==
    /\ turn.pc = "awaiting_tool"
    /\ FinishToolCall(_format_tool_error(turn.current.id,
                                         turn.current.name, error))

\* asyncio.wait_for raises TimeoutError: its timer has fired and the tool's
\* task has ended by the cancellation
ToolTimesOut ==
    /\ turn.pc = "awaiting_tool"
    /\ FinishToolCall(_format_tool_error(turn.current.id,
                                         turn.current.name, "timed out"))

\* tool_execution_timeout seconds pass while the tool's task neither ends
\* nor yields to the cancellation: the tool runs a blocking call inside its
\* coroutine (subprocess.run in the platform tools), which holds the event
\* loop, or it catches CancelledError.  wait_for keeps waiting for the task.
DeadlinePasses ==
    /\ turn.pc = "awaiting_tool"
    /\ ~turn.deadline_passed
    /\ turn' = [ turn EXCEPT !.deadline_passed = TRUE ]
    /\ UNCHANGED << max_iterations, registry, conversation_history, turns,
                    executions >>
    /\ UNCHANGED << securityVars, otherVars >>

\* Agent.clear_history, between two process_message calls; the frame of the
\* call that has returned is dropped
clear_history ==
    /\ turn.pc \in { "idle", "done" }
    /\ conversation_history' =
           SelectSeq(conversation_history, LAMBDA msg : msg.role = "system")
    /\ turn' = IdleTurn
    /\ UNCHANGED << max_iterations, registry, turns, executions >>
    /\ UNCHANGED << securityVars, otherVars >>

\* The Agent of main.py: the registry holds the tools as registered (no
\* caller wraps them), the security configuration is AppConfig's default
InitAgent ==
    /\ _current_level = "advanced"
    /\ _is_elevated = FALSE
    /\ require_confirmation = TRUE
    /\ sensitive_actions_require_confirmation = TRUE
    /\ _decision_cache = << >>
    /\ now = 0
    /\ enabled = TRUE
    /\ audit_log = << >>
    /\ call = IdleCall
    /\ cached_at = << >>
    /\ calls = 0
    /\ ticks = 0
    /\ executions = << >>
    /\ max_iterations \in 0..MaxIterations
    /\ registry = [ name \in { "echo", "delete_file" } |-> Tool(name, 1) ]
    /\ conversation_history \in { << >>, << SystemMessage >> }
    /\ turn = IdleTurn
    /\ turns = 0
    /\ registry_call = IdleRegistryCall
    /\ params = NoParams
    /\ sanitized = NotSanitized
    /\ InitRest

NextAgent ==
    \/ \E user_message \in { "hello" } : process_message(user_message)
    \/ \E message \in ModelReplyMessages : ModelReplies(message)
    \/ \E error \in ModelErrors : ModelRaises(error)
    \/ \E result \in AgentToolResults : ToolReturns(result)
    \/ \E error \in AgentToolErrors : ToolRaises(error)
    \/ ToolTimesOut
    \/ DeadlinePasses
    \/ clear_history

SpecAgent == InitAgent /\ [][NextAgent]_vars

-----------------------------------------------------------------------------
(* One Agent whose process_message is awaited by several tasks of the      *)
(* event loop.  turn is the frame of the task that runs or is resumed next; *)
(* suspended holds the frames of the other calls, each at its await or      *)
(* returned.  The Agent has no lock and no flag: a call that starts while   *)
(* another is suspended runs the same code on the same history.             *)

\* process_message is called while the call of turn is suspended at the
\* await of the model backend or of a tool
process_message_concurrently(user_message) ==
    /\ turn.pc \in { "model_call", "awaiting_tool" }
    /\ Len(suspended) + 1 < MaxConcurrent
    /\ suspended' = Append(suspended, turn)
    /\ turns' = turns + 1
    /\ conversation_history' =
           Append(conversation_history, Message("user", Text(user_message)))
    /\ turn' = LoopHead([ IdleTurn EXCEPT
                            !.base = Len(conversation_history) ])
    /\ UNCHANGED << max_iterations, registry, executions >>
    /\ UNCHANGED << securityVars, registry_call, params, sanitized, wrapped,
                    fileVars >>

\* the event loop turns to another call: the one of turn is at an await or
\* has returned
SwitchTask(i) ==
    /\ i \in DOMAIN suspended
    /\ turn.pc \in { "model_call", "awaiting_tool", "done" }
    /\ suspended[i].pc # "done"
    /\ turn' = suspended[i]
    /\ suspended' = [ suspended EXCEPT ![i] = turn ]
    /\ UNCHANGED << max_iterations, registry, conversation_history, turns,
                    executions >>
    /\ UNCHANGED << securityVars, registry_call, params, sanitized, wrapped,
                    fileVars >>

\* an Agent built with max_iterations = 1 and no system prompt
InitConcurrent ==
    /\ InitAgent
    /\ max_iterations = 1
    /\ conversation_history = << >>

\* the replies of the model that carry at most one tool call
ShortReplyMessages ==
    { message \in ModelReplyMessages : Len(message.tool_calls) <= 1 }

NextConcurrent ==
    \/ \E user_message \in { "hello" } : process_message(user_message)
    \/ \E user_message \in { "again" } :
         process_message_concurrently(user_message)
    \/ \E i \in 1..MaxConcurrent : SwitchTask(i)
    \/ \E message \in ShortReplyMessages : ModelReplies(message)
    \/ \E error \in ModelErrors : ModelRaises(error)
    \/ \E result \in AgentToolResults : ToolReturns(result)
    \/ \E error \in AgentToolErrors : ToolRaises(error)
    \/ ToolTimesOut
    \/ DeadlinePasses

SpecConcurrent == InitConcurrent /\ [][NextConcurrent]_vars

-----------------------------------------------------------------------------
(* ToolRegistry.register and unregister, on a registry of its own *)

RegistryNames == { "echo", "read_file", "delete_file" }

\* two tool objects for each name
RegistryTools == { Tool(name, id) : name \in RegistryNames, id \in { 1, 2 } }

register_overwrites(tool) ==
    /\ registry_call' = [ op |-> "register", name |-> tool.name,
                          tool |-> tool, raised |-> None,
                          before |-> registry ]
    /\ registry' = [ name \in DOMAIN registry \cup { tool.name } |->
                       IF name = tool.name THEN tool ELSE registry[name] ]
    /\ UNCHANGED << securityVars, executions, max_iterations,
                    conversation_history, turn, turns, params, sanitized,
                    suspended, wrapped, fileVars >>

register(tool) ==
    /\ IF tool.name \in DOMAIN registry
       THEN /\ registry_call' = [ op |-> "register", name |-> tool.name,
                                  tool |-> tool, raised |-> "ValueError",
                                  before |-> registry ]
            /\ UNCHANGED registry
       ELSE /\ registry_call' = [ op |-> "register", name |-> tool.name,
                                  tool |-> tool, raised |-> None,
                                  before |-> registry ]
            /\ registry' = [ name \in DOMAIN registry \cup { tool.name } |->
                               IF name = tool.name THEN tool
                                                   ELSE registry[name] ]
    /\ UNCHANGED << securityVars, executions, max_iterations,
                    conversation_history, turn, turns, params, sanitized,
                    suspended, wrapped, fileVars >>

unregister(name) ==
    /\ IF name \notin DOMAIN registry
       THEN /\ registry_call' = [ op |-> "unregister", name |-> name,
                                  tool |-> Tool("", 0), raised |-> "KeyError",
                                  before |-> registry ]
            /\ UNCHANGED registry
       ELSE /\ registry_call' = [ op |-> "unregister", name |-> name,
                                  tool |-> Tool("", 0), raised |-> None,
                                  before |-> registry ]
            /\ registry' = [ n \in DOMAIN registry \ { name } |->
                               registry[n] ]
    /\ UNCHANGED << securityVars, executions, max_iterations,
                    conversation_history, turn, turns, params, sanitized,
                    suspended, wrapped, fileVars >>

\* a fresh ToolRegistry; the rest of the application as configured by default
InitRegistry ==
    /\ InitSecurity
    /\ _current_level = "advanced"
    /\ require_confirmation
    /\ sensitive_actions_require_confirmation
    /\ enabled

NextRegistry ==
    \/ \E tool \in RegistryTools : register(tool)
    \/ \E name \in RegistryNames : unregister(name)

SpecRegistry == InitRegistry /\ [][NextRegistry]_vars

-----------------------------------------------------------------------------
(* AuditLogger.sanitize_parameters, applied to parameter structures *)

MaxDepth == 4          \* nesting depth of a parameter structure

\* the characters of the parameter keys of the model
KEY_CHARS ==
    [ password |-> << "p","a","s","s","w","o","r","d" >>,
      Auth_Token |-> << "A","u","t","h","_","T","o","k","e","n" >>,
      items |-> << "i","t","e","m","s" >>,
      name |-> << "n","a","m","e" >> ]

SENSITIVE_KEYS ==
    { << "p","a","s","s","w","o","r","d" >>,
      << "p","a","s","s","w","d" >>,
      << "p","w","d" >>,
      << "s","e","c","r","e","t" >>,
      << "t","o","k","e","n" >>,
      << "a","p","i","_","k","e","y" >>,
      << "a","p","i","k","e","y" >>,
      << "a","u","t","h" >>,
      << "a","u","t","h","o","r","i","z","a","t","i","o","n" >>,
      << "c","r","e","d","e","n","t","i","a","l" >>,
      << "p","r","i","v","a","t","e","_","k","e","y" >> }

\* any(sensitive in key_lower for sensitive in self.SENSITIVE_KEYS), with
\* key_lower = key.lower(), tabulated over the keys of the model
is_sensitive_key ==
    [ key \in DOMAIN KEY_CHARS |->
        LET key_lower == lower(KEY_CHARS[key])
        IN  \E sensitive \in SENSITIVE_KEYS :
                Contains(key_lower, sensitive) ]

REDACTED == "[REDACTED]"

redact_toggles(value) ==
    IF value.t = "scalar" /\ value.v = REDACTED
    THEN Scalar("")
    ELSE Scalar(REDACTED)

\* what a sensitive key gets: sanitized[key] = '[REDACTED]'
redact(value) == Scalar(REDACTED)

RECURSIVE sanitize_parameters(_)
sanitize_parameters(p) ==
    IF DOMAIN p.v = { }
    THEN Dict(<< >>)
    ELSE Dict([ key \in DOMAIN p.v |->
                  LET value == p.v[key]
                  IN  IF is_sensitive_key[key]
                      THEN redact(value)
                      ELSE IF value.t = "dict"
                           THEN sanitize_parameters(value)
                           ELSE IF value.t = "list"
                                THEN List([ i \in DOMAIN value.v |->
                                             IF value.v[i].t = "dict"
                                             THEN sanitize_parameters(
                                                      value.v[i])
                                             ELSE value.v[i] ])
                                ELSE value ])

\* the structures with one nested value: a value alone or after a scalar in
\* a list, or under a key of a dict beside the scalar of the key "name"
Wrappings(value) ==
    { List(<< value >>), List(<< Scalar("alice"), value >>) }
    \cup { Dict([ k \in { key, "name" } |->
                    IF k = key THEN value ELSE Scalar("alice") ]) :
           key \in DOMAIN KEY_CHARS \ { "name" } }

RECURSIVE Nested(_)
\* the values of nesting depth up to depth
Nested(depth) ==
    IF depth = 0
    THEN { Scalar("hunter2"), Dict(<< >>) }
    ELSE LET inner == Nested(depth - 1)
         IN  inner \cup UNION { Wrappings(value) : value \in inner }

\* the parameters of a logged call: a dict
ParameterStructures == { p \in Nested(MaxDepth) : p.t = "dict" }

\* a write operation of the logger sanitizes the parameters it is given
Sanitize ==
    /\ sanitized = NotSanitized
    /\ sanitized' = sanitize_parameters(params)
    /\ UNCHANGED << securityVars, agentVars, executions, registry_call,
                    params, suspended, wrapped, fileVars >>

InitSanitize ==
    /\ _current_level = "advanced"
    /\ _is_elevated = FALSE
    /\ require_confirmation = TRUE
    /\ sensitive_actions_require_confirmation = TRUE
    /\ _decision_cache = << >>
    /\ now = 0
    /\ enabled = TRUE
    /\ audit_log = << >>
    /\ call = IdleCall
    /\ cached_at = << >>
    /\ calls = 0
    /\ ticks = 0
    /\ executions = << >>
    /\ max_iterations = 0
    /\ registry = << >>
    /\ conversation_history = << >>
    /\ turn = IdleTurn
    /\ turns = 0
    /\ registry_call = IdleRegistryCall
    /\ params \in ParameterStructures
    /\ sanitized = NotSanitized
    /\ InitRest

NextSanitize == Sanitize

SpecSanitize == InitSanitize /\ [][NextSanitize]_vars

-----------------------------------------------------------------------------
(* AuditLogger and its files.  Every instance takes the one logger         *)
(* logging.getLogger('audit') of the process and adds a handler to it;     *)
(* logger.info hands the line to every handler of the logger.  A handler   *)
(* (RotatingFileHandler, opened at construction) writes to the file it has *)
(* opened, whatever path names that file later.  A path is a stem and a    *)
(* suffix; the rotation at 10 MB is not reached by the logs of the model.  *)

Path(stem, suffix) == [ stem |-> stem, suffix |-> suffix ]

\* config.audit_log_path of the instances
LogPaths == { Path("audit", "log"), Path("other", "log") }

\* Path.with_suffix
with_suffix(path, suffix) == [ path EXCEPT !.suffix = suffix ]

\* the lines of the file that path names
File(path) == inodes[fs[path]]

\* some handler holds the file open
IsOpen(inode) == \E j \in DOMAIN handlers : handlers[j].stream = inode

\* lines[start:] of Python, for a start of either sign
SliceFrom(lines, start) ==
    LET n == Len(lines)
        first == IF start < 0
                 THEN ( IF start + n < 0 THEN 0 ELSE start + n )
                 ELSE ( IF start > n THEN n ELSE start )
    IN  SubSeq(lines, first + 1, n)

\* the contents of every named file
Snapshot == [ path \in DOMAIN fs |-> File(path) ]

\* AuditLogger(config): __init__ and, when auditing is enabled,
\* _setup_logger
AuditLogger(path, enable) ==
    /\ Len(loggers) < MaxLoggers
    /\ loggers' = Append(loggers, [ audit_log_path |-> path,
                                    enabled |-> enable ])
    /\ audit_call' = [ IdleAuditCall EXCEPT !.op = "__init__",
                                            !.logger = Len(loggers) + 1 ]
    /\ IF ~enable
       THEN UNCHANGED << fs, inodes, handlers >>
       ELSE IF path \in DOMAIN fs
            THEN /\ handlers' = Append(handlers,
                                       [ baseFilename |-> path,
                                         stream |-> fs[path] ])
                 /\ UNCHANGED << fs, inodes >>
            ELSE /\ inodes' = Append(inodes, << >>)
                 /\ fs' = [ q \in DOMAIN fs \cup { path } |->
                              IF q = path THEN Len(inodes) + 1 ELSE fs[q] ]
                 /\ handlers' = Append(handlers,
                                       [ baseFilename |-> path,
                                         stream |-> Len(inodes) + 1 ])
    /\ UNCHANGED << os_name, clears, reads, written >>
    /\ UNCHANGED << securityVars, agentVars, executions, registry_call,
                    params, sanitized, suspended, wrapped >>

\* the event types of the four write operations
EventTypes ==
    { "tool_execution", "permission_denied", "elevation_request",
      "user_confirmation" }

\* logger.info(line): every handler of the logger writes the line to its
\* file
RECURSIVE EmitFrom(_, _, _)
EmitFrom(files, line, j) ==
    IF j > Len(handlers)
    THEN files
    ELSE EmitFrom([ files EXCEPT ![handlers[j].stream] = Append(@, line) ],
                  line, j + 1)

Emit(files, line) == EmitFrom(files, line, 1)

\* one of log_tool_execution, log_permission_denied, log_elevation_request
\* and log_user_confirmation, called on the instance i: nothing when the
\* instance is disabled, else logger.info(json.dumps(log_entry)).  n stands
\* for the timestamp of the entry.
AuditLoggerWrite(i, event_type) ==
    /\ i \in DOMAIN loggers
    /\ Len(written) < MaxWrites
    /\ LET entry == [ event_type |-> event_type, n |-> Len(written) + 1 ]
       IN  /\ audit_call' = [ IdleAuditCall EXCEPT
                                !.op = "write", !.logger = i,
                                !.entry = entry, !.before = Snapshot ]
           /\ IF ~loggers[i].enabled
              THEN UNCHANGED << inodes, written >>
              ELSE /\ inodes' = Emit(inodes, entry)
                   /\ written' = Append(written, [ entry |-> entry,
                                                   logger |-> i ])
    /\ UNCHANGED << os_name, fs, handlers, loggers, clears, reads >>
    /\ UNCHANGED << securityVars, agentVars, executions, registry_call,
                    params, sanitized, suspended, wrapped >>

\* "for line in lines[-limit:]": every line of the log is the json.dumps of
\* an entry, which json.loads gives back
get_recent_logs(lines, limit) == SliceFrom(lines, 0 - limit)

GetRecentLogs(i, limit) ==
    /\ i \in DOMAIN loggers
    /\ reads < MaxReads
    /\ reads' = reads + 1
    /\ LET path == loggers[i].audit_log_path
       IN  audit_call' =
               [ IdleAuditCall EXCEPT
                   !.op = "get_recent_logs", !.logger = i, !.limit = limit,
                   !.returned =
                       IF ~loggers[i].enabled THEN << >>
                       ELSE IF path \notin DOMAIN fs THEN << >>
                       ELSE get_recent_logs(File(path), limit) ]
    /\ UNCHANGED << os_name, fs, inodes, handlers, loggers, clears,
                    written >>
    /\ UNCHANGED << securityVars, agentVars, executions, registry_call,
                    params, sanitized, suspended, wrapped >>

\* clear_logs on the instance i.  On Windows (os_name = "nt") a file that a
\* handler holds open can be neither renamed nor deleted: the call raises
\* PermissionError there, after what it has done so far.
clear_logs(i) ==
    /\ i \in DOMAIN loggers
    /\ clears < MaxClears
    /\ clears' = clears + 1
    /\ LET log_path == loggers[i].audit_log_path
           backup_path == with_suffix(log_path, "bak")
           frame == [ IdleAuditCall EXCEPT !.op = "clear_logs",
                                           !.logger = i,
                                           !.before = Snapshot ]
       IN  IF ~loggers[i].enabled \/ log_path \notin DOMAIN fs
           THEN /\ audit_call' = frame
                /\ UNCHANGED << fs, inodes >>
           ELSE IF /\ backup_path \in DOMAIN fs
                   /\ os_name = "nt"
                   /\ IsOpen(fs[backup_path])
                THEN \* backup_path.unlink() raises
                     /\ audit_call' = [ frame EXCEPT
                                          !.raised = "PermissionError" ]
                     /\ UNCHANGED << fs, inodes >>
                ELSE IF os_name = "nt" /\ IsOpen(fs[log_path])
                     THEN \* log_path.rename(backup_path) raises
                          /\ audit_call' = [ frame EXCEPT
                                               !.raised = "PermissionError" ]
                          /\ fs' = [ q \in DOMAIN fs \ { backup_path } |->
                                       fs[q] ]
                          /\ UNCHANGED inodes
                     ELSE \* unlink, rename, touch
                          /\ audit_call' = frame
                          /\ inodes' = Append(inodes, << >>)
                          /\ fs' = [ q \in DOMAIN fs \cup { backup_path } |->
                                       IF q = backup_path THEN fs[log_path]
                                       ELSE IF q = log_path
                                            THEN Len(inodes) + 1
                                            ELSE fs[q] ]
    /\ UNCHANGED << os_name, handlers, loggers, reads, written >>
    /\ UNCHANGED << securityVars, agentVars, executions, registry_call,
                    params, sanitized, suspended, wrapped >>

\* a process that has constructed no AuditLogger yet, on either kind of
\* operating system
InitAudit ==
    /\ InitSecurityState
    /\ _current_level = "advanced"
    /\ require_confirmation
    /\ sensitive_actions_require_confirmation
    /\ enabled
    /\ max_iterations = 0
    /\ registry = << >>
    /\ conversation_history = << >>
    /\ turn = IdleTurn
    /\ turns = 0
    /\ registry_call = IdleRegistryCall
    /\ params = NoParams
    /\ sanitized = NotSanitized
    /\ suspended = << >>
    /\ wrapped = { }
    /\ os_name \in { "posix", "nt" }
    /\ InitFiles

NextAudit ==
    \/ \E path \in LogPaths, enable \in BOOLEAN : AuditLogger(path, enable)
    \/ \E i \in 1..MaxLoggers, event_type \in EventTypes :
         AuditLoggerWrite(i, event_type)
    \/ \E i \in 1..MaxLoggers, limit \in 0..MaxLimit : GetRecentLogs(i, limit)
    \/ \E i \in 1..MaxLoggers : clear_logs(i)

SpecAudit == InitAudit /\ [][NextAudit]_vars

-----------------------------------------------------------------------------
(* Properties of the agent loop, checked under SpecAgent *)

\* C1: every run of a registered tool's execute that process_message starts
\* goes through SecurityMiddleware.execute_with_security (permission check
\* before, audit record after).
C1_ToolCallsThroughMiddleware ==
    \A i \in DOMAIN executions : executions[i].secured

\* C4: a process_message call makes at most max_iterations model calls; it
\* leaves the loop at the bound with the apology as its return value, and
\* every return is one of the three exits (no exception).
C4_BoundedModelCalls ==
    /\ turn.model_calls <= max_iterations
    /\ turn.exit = "max_iterations" =>
           /\ turn.pc = "done"
           /\ turn.returned = Apology
           /\ turn.model_calls = max_iterations
    /\ turn.pc = "done" => turn.exit \in { "reply", "error", "max_iterations" }

C4_Witness ==
    /\ turn.exit = "max_iterations"
    /\ max_iterations >= 2
    /\ turn.model_calls = max_iterations
    /\ Len(executions) >= 1

\* the assistant message whose tool calls the loop is working on
OpenAssistant(i) ==
    /\ turn.pc = "awaiting_tool"
    /\ \A j \in DOMAIN conversation_history :
           conversation_history[j].role = "assistant" => j <= i

\* C5: an assistant message with k tool-call requests is followed by
\* exactly k tool messages, the j-th carrying the id and the name of the
\* j-th request, before the next model call; while the loop waits for a tool
\* the requests before it are answered in this way.
C5_ToolMessagesAnswerRequests ==
    \A i \in DOMAIN conversation_history :
        conversation_history[i].role = "assistant" =>
            LET requests == conversation_history[i].tool_calls
                answered == IF OpenAssistant(i)
                            THEN Len(requests) - Len(turn.pending) - 1
                            ELSE Len(requests)
            IN  /\ i + answered <= Len(conversation_history)
                /\ \A j \in 1..answered :
                       /\ conversation_history[i + j].role = "tool"
                       /\ conversation_history[i + j].tool_call_id =
                              requests[j].id
                       /\ conversation_history[i + j].name = requests[j].name
                /\ i + answered + 1 <= Len(conversation_history) =>
                       conversation_history[i + answered + 1].role # "tool"

C5_Witness ==
    /\ turn.pc = "model_call"
    /\ \E i \in DOMAIN conversation_history :
           /\ conversation_history[i].role = "assistant"
           /\ Len(conversation_history[i].tool_calls) = 2
           /\ conversation_history[i].tool_calls[1].name = "nonexistent_tool"
           /\ conversation_history[i].tool_calls[2].name = "delete_file"
           /\ i + 2 = Len(conversation_history)
           /\ conversation_history[i + 1].content.text =
                  "not found in registry"
           /\ conversation_history[i + 2].content.text = "timed out"

\* C6: once the per-call timeout of a tool call has expired the loop no
\* longer waits for that call (it goes on with the remaining tool calls and
\* the next model call), even if the tool never returns.
C6_TimeoutEndsTheWait ==
    ~(turn.pc = "awaiting_tool" /\ turn.deadline_passed)

\* C7: when the model call raises, one assistant message with the error
\* text is appended, it is the last message, its text is returned, and the
\* call is over (no further model call or tool execution).
C7_ModelErrorEndsTurn ==
    turn.exit = "error" =>
        /\ turn.pc = "done"
        /\ turn.returned.kind = "occurred"
        /\ Len(conversation_history) > turn.base
        /\ conversation_history[Len(conversation_history)] =
               Message("assistant", turn.returned)
        /\ Cardinality({ i \in (turn.base + 1)..Len(conversation_history) :
                           conversation_history[i].content.kind = "occurred" })
               = 1

C7_Witness ==
    /\ turn.exit = "error"
    /\ turn.model_calls = 2
    /\ Len(executions) = 1

-----------------------------------------------------------------------------
(* Properties of the security pipeline, checked under SpecSecurity *)

PermissionOrder == << "basic", "advanced", "admin" >>

rank(level) == CHOOSE i \in 1..3 : PermissionOrder[i] = level

\* C2: a call for an admin tool while the configured level is basic or
\* advanced raises PermissionError without running the tool, whatever
\* request_elevation answers (already admin, granted, refused), and the
\* configured level stays what it was.
C2_DoubleGate ==
    ( /\ call.tool # ""
      /\ get_tool_permission_level(call.tool) = "admin"
      /\ call.level_before \in { "basic", "advanced" } ) =>
        /\ call.pc = "idle"
        /\ call.outcome = "raised"
        /\ call.exception = "PermissionError"
        /\ Len(executions) = call.exec_base
        /\ call.elevation \in { "already_admin", "granted", "refused" }
        /\ _current_level = call.level_before

C2_Witness ==
    /\ call.tool = "delete_file"
    /\ call.level_before = "advanced"
    /\ call.elevation = "granted"
    /\ _is_elevated
    /\ call.exception = "PermissionError"

\* check_permission agrees with the order of the levels, for every level
\* and every tool name of the model
CheckPermissionFollowsRank ==
    \A level \in PermissionLevel, name \in DOMAIN CHARS :
        LET required == get_tool_permission_level(name)
        IN  /\ name \notin DOMAIN TOOL_PERMISSIONS => required = "advanced"
            /\ check_permission(level, name, None) =
                   (rank(level) >= rank(required))
            /\ check_permission(level, name, required) =
                   (rank(level) >= rank(required))

\* C3: check_permission is true exactly when the configured level is at
\* least the required level in the order basic < advanced < admin, a name
\* that TOOL_PERMISSIONS does not list requiring advanced; checked for every
\* level and name, and for the check that each call made.
C3_CheckPermissionIsRankOrder ==
    /\ CheckPermissionFollowsRank
    /\ call.tool # "" =>
           call.permitted =
               (rank(call.level_before) >=
                rank(get_tool_permission_level(call.tool)))

C3_Witness ==
    /\ call.tool = "test_tool"
    /\ call.level_before = "basic"
    /\ ~call.permitted
    /\ call.exception = "PermissionError"

\* C8: a request for confirmation for a tool that has a decision cached at
\* time t0 returns that decision without a prompt if it is made at a time
\* t <= t0 + _cache_duration, and shows a prompt if t > t0 + _cache_duration.
C8_CachedDecisionWithinTTL ==
    ( /\ call.confirmation # "none"
      /\ call.tool \in DOMAIN call.cache_before ) =>
        IF call.at <= call.cached_since + _cache_duration
        THEN /\ ~call.prompted
             /\ call.user_confirmed = call.cache_before[call.tool].decision
        ELSE call.prompted

C8_Witness ==
    /\ call.confirmation # "none"
    /\ call.tool \in DOMAIN call.cache_before
    /\ call.at = call.cached_since + _cache_duration
    /\ ~call.prompted

\* C9: with auditing enabled, a call that meets a remembered denial within
\* its TTL is denied without a prompt, and every denied call adds to the
\* audit log exactly a user_confirmation entry with confirmed = FALSE
\* followed by a tool_execution entry with success = FALSE.
C9_RememberedDenial ==
    /\ ( /\ call.confirmation # "none"
         /\ call.tool \in DOMAIN call.cache_before
         /\ ~call.cache_before[call.tool].decision
         /\ call.at <= call.cached_since + _cache_duration ) =>
           /\ call.confirmation = "denied"
           /\ ~call.prompted
    /\ ( call.confirmation = "denied" /\ enabled ) =>
           LET gained == SubSeq(audit_log, call.log_base + 1, Len(audit_log))
           IN  /\ Len(gained) = 2
               /\ gained[1].event_type = "user_confirmation"
               /\ gained[1].tool_name = call.tool
               /\ gained[1].confirmed = FALSE
               /\ gained[2].event_type = "tool_execution"
               /\ gained[2].tool_name = call.tool
               /\ gained[2].success = FALSE

C9_Witness ==
    /\ calls = 2
    /\ enabled
    /\ call.confirmation = "denied"
    /\ ~call.prompted
    /\ call.at > call.cached_since
    /\ Len(audit_log) = 4
    /\ audit_log[1].confirmed = FALSE

\* C10: a call whose confirmation is a denial, prompted or cached, does not
\* run the tool and returns the "cancelled by user" result with
\* success = FALSE; it raises nothing.
C10_DenialReturnsCancelled ==
    call.confirmation = "denied" =>
        /\ call.pc = "idle"
        /\ call.outcome = "returned"
        /\ call.exception = None
        /\ call.result.success = FALSE
        /\ call.result.message = "Action cancelled by user"
        /\ Len(executions) = call.exec_base

C10_Witness ==
    /\ call.confirmation = "denied"
    /\ call.prompted
    /\ call.result = CancelledResult


\* the audit entries that the current call has appended
Gained == SubSeq(audit_log, call.log_base + 1, Len(audit_log))

EntriesOf(log, event_type) ==
    { i \in DOMAIN log : log[i].event_type = event_type }

\* C11: with auditing enabled, a call that fails the permission check raises
\* PermissionError, appends exactly one permission_denied entry and no
\* tool_execution entry, and starts no execution of the tool (none at all, so
\* no retry either).
C11_DeniedCallLogsOnce ==
    ( call.tool # "" /\ ~call.permitted ) =>
        /\ call.pc = "idle"
        /\ call.outcome = "raised"
        /\ call.exception = "PermissionError"
        /\ Len(executions) = call.exec_base
        /\ enabled =>
               /\ Cardinality(EntriesOf(Gained, "permission_denied")) = 1
               /\ EntriesOf(Gained, "tool_execution") = { }
               /\ Gained[Len(Gained)].tool_name = call.tool

C11_Witness ==
    /\ call.tool = "delete_file"
    /\ call.level_before = "basic"
    /\ enabled
    /\ ~call.permitted
    /\ call.elevation = "refused"
    /\ Len(Gained) = 2
    /\ Gained[2].event_type = "permission_denied"

\* C12: a call that passes the permission check and needs no confirmation
\* starts the tool's execute exactly once, with the arguments it was given;
\* when that returns, the call returns the tool's result and, with auditing
\* enabled, has appended exactly one entry: a tool_execution with
\* success = TRUE.
C12_PermittedCallExecutesOnce ==
    ( /\ call.tool # ""
      /\ call.permitted
      /\ call.confirmation = "none" ) =>
        /\ Len(executions) = call.exec_base + 1
        /\ executions[Len(executions)] =
               [ tool |-> call.tool, kwargs |-> call.kwargs,
                 secured |-> TRUE ]
        /\ call.pc = "executing" => Gained = << >>
        /\ call.outcome = "returned" =>
               /\ call.result \in ToolResults
               /\ enabled =>
                      /\ Len(Gained) = 1
                      /\ Gained[1].event_type = "tool_execution"
                      /\ Gained[1].tool_name = call.tool
                      /\ Gained[1].success = TRUE
                      /\ Gained[1].result_summary = call.result

C12_Witness ==
    /\ call.tool = "read_file"
    /\ call.level_before = "basic"
    /\ call.kwargs \in ToolArguments
    /\ call.outcome = "returned"
    /\ enabled
    /\ Len(Gained) = 1
    /\ Len(executions) = call.exec_base + 1


\* C13: with auditing enabled, when the tool's execute raises, the call has
\* appended exactly one tool_execution entry, with success = FALSE and the
\* error, as its last entry, and raises that same error.
C13_ToolErrorIsLogged ==
    ( /\ call.outcome = "raised"
      /\ Len(executions) = call.exec_base + 1
      /\ enabled ) =>
        /\ call.exception \in ToolErrors
        /\ Cardinality(EntriesOf(Gained, "tool_execution")) = 1
        /\ Gained[Len(Gained)].event_type = "tool_execution"
        /\ Gained[Len(Gained)].success = FALSE
        /\ Gained[Len(Gained)].error = call.exception

\* C14: a call that fails the permission check for a tool whose required
\* level is basic or advanced raises at once: request_elevation is not
\* called and no elevation_request entry is written; an elevation is
\* attempted, and logged, only for a tool that requires admin.
C14_ElevationOnlyForAdminTools ==
    /\ ( /\ call.tool # ""
         /\ ~call.permitted
         /\ get_tool_permission_level(call.tool) \in { "basic", "advanced" } )
         =>
           /\ call.outcome = "raised"
           /\ call.exception = "PermissionError"
           /\ call.elevation = "none"
           /\ EntriesOf(Gained, "elevation_request") = { }
    /\ ( call.elevation # "none"
         \/ EntriesOf(Gained, "elevation_request") # { } ) =>
           /\ get_tool_permission_level(call.tool) = "admin"
           /\ ~call.permitted

C14_Witness ==
    /\ call.tool = "test_tool"
    /\ call.level_before = "basic"
    /\ call.elevation = "none"
    /\ enabled
    /\ ~_is_elevated
    /\ Len(Gained) = 1
    /\ Gained[1].event_type = "permission_denied"

\* C20: is_confirmation_required is true only if require_confirmation is on
\* and the tool name matches a sensitive keyword; while require_confirmation
\* is off it is false for every name, and no call asks for a confirmation:
\* nothing is prompted, the decision cache stays as constructed (empty) and
\* no user_confirmation entry is written.
C20_NoConfirmationWhenSwitchedOff ==
    /\ \A name \in DOMAIN CHARS :
           is_confirmation_required(name) =>
               require_confirmation /\ matches_sensitive_keyword[name]
    /\ ~require_confirmation =>
           /\ \A name \in DOMAIN CHARS : ~is_confirmation_required(name)
           /\ call.confirmation = "none"
           /\ ~call.prompted
           /\ _decision_cache = << >>
           /\ cached_at = << >>
           /\ EntriesOf(audit_log, "user_confirmation") = { }

C20_Witness ==
    /\ ~require_confirmation
    /\ sensitive_actions_require_confirmation
    /\ call.tool = "delete_file"
    /\ matches_sensitive_keyword[call.tool]
    /\ call.pc = "executing"


\* C21: with both confirmation switches on, is_confirmation_required is
\* true for delete_file, kill_process, write_registry_key and click_mouse,
\* and false for read_file and get_system_info.
C21_ConfirmationRequiredCheck ==
    ( require_confirmation /\ sensitive_actions_require_confirmation ) =>
        /\ \A name \in { "delete_file", "kill_process",
                         "write_registry_key", "click_mouse" } :
               is_confirmation_required(name)
        /\ \A name \in { "read_file", "get_system_info" } :
               ~is_confirmation_required(name)

\* the entries that a step appends to the audit log
Appended == SubSeq(audit_log', Len(audit_log) + 1, Len(audit_log'))

\* C24: a call that shows a prompt leaves the decision in the cache, under
\* its own tool name and with the TTL, exactly when the prompt answered
\* remember = TRUE, and leaves the entries of the other names as they were;
\* a request for the tool of the call before, prompted and not remembered,
\* prompts again; and a confirmation that is not prompted returns the
\* decision cached under the name of the tool that is asked for, which a
\* remembered prompt for that name has stored.
C24_CacheHoldsRememberedPrompts ==
    [][ calls' = calls + 1 =>
          /\ call'.prompted =>
                /\ ( call'.tool \in DOMAIN _decision_cache' ) = call'.remember
                /\ call'.remember =>
                       _decision_cache'[call'.tool] =
                           [ decision |-> call'.user_confirmed,
                             expiry |-> now + _cache_duration ]
                /\ \A name \in ( DOMAIN _decision_cache
                                 \cup DOMAIN _decision_cache' )
                                \ { call'.tool } :
                       /\ name \in DOMAIN _decision_cache
                       /\ name \in DOMAIN _decision_cache'
                       /\ _decision_cache'[name] = _decision_cache[name]
          /\ ( /\ call.prompted
               /\ ~call.remember
               /\ call'.tool = call.tool
               /\ call'.confirmation # "none" ) => call'.prompted
          /\ ( call'.confirmation # "none" /\ ~call'.prompted ) =>
                /\ call'.tool \in DOMAIN _decision_cache
                /\ call'.tool \in DOMAIN cached_at
                /\ call'.user_confirmed =
                       _decision_cache[call'.tool].decision
                /\ _decision_cache' = _decision_cache ]_vars

\* a second prompt for delete_file, after a prompt that was not remembered
C24_Witness ==
    /\ calls = 2
    /\ enabled
    /\ call.tool = "delete_file"
    /\ call.prompted
    /\ ~call.remember
    /\ cached_at = << >>
    /\ _decision_cache = << >>
    /\ Cardinality(EntriesOf(audit_log, "user_confirmation")) = 2
    /\ \A i \in EntriesOf(audit_log, "user_confirmation") :
           audit_log[i].tool_name = "delete_file"

\* C27: with auditing enabled, a call that has started the tool's execute
\* and has ended, by a result, by an error or by the cancellation of its
\* caller's timeout, has appended exactly one tool_execution entry.
C27_StartedExecutionIsRecorded ==
    ( /\ call.pc = "idle"
      /\ call.tool # ""
      /\ Len(executions) = call.exec_base + 1
      /\ enabled ) =>
        Cardinality(EntriesOf(Gained, "tool_execution")) = 1

\* C29: a call that fails the permission check raises PermissionError
\* without asking for a confirmation: no prompt, the decision cache and the
\* record of the remembered prompts as they were (no expired entry deleted,
\* none stored), and no user_confirmation entry among those it appends.
C29_PermissionPrecedesConfirmation ==
    [][ ( calls' = calls + 1 /\ ~call'.permitted ) =>
          /\ call'.outcome = "raised"
          /\ call'.exception = "PermissionError"
          /\ ~call'.prompted
          /\ call'.confirmation = "none"
          /\ _decision_cache' = _decision_cache
          /\ cached_at' = cached_at
          /\ EntriesOf(Appended, "user_confirmation") = { } ]_vars

\* delete_file, which needs a confirmation, denied at the level basic
C29_Witness ==
    /\ call.tool = "delete_file"
    /\ is_confirmation_required("delete_file")
    /\ call.level_before = "basic"
    /\ ~call.permitted
    /\ call.exception = "PermissionError"
    /\ enabled
    /\ Len(Gained) = 2

-----------------------------------------------------------------------------
(* Properties of a wrapped tool, checked under SpecWrap *)

\* C25: a call of the execute of a wrapped tool, with a sufficient level and
\* no confirmation required, ends: the tool's own execute body has run
\* exactly once by then and the call returns its result.
C25_WrappedToolExecutesOnce ==
    ( /\ call.pc = "idle"
      /\ call.outer = << >>
      /\ call.tool \in wrapped
      /\ call.permitted
      /\ call.confirmation = "none" ) =>
        /\ Len(executions) = call.exec_base + 1
        /\ call.outcome = "returned"
        /\ call.result \in ToolResults

-----------------------------------------------------------------------------
(* Properties of the audit log files, checked under SpecAudit *)

\* the line is one of the lines
Has(lines, line) == \E k \in DOMAIN lines : lines[k] = line

\* C22: after any writes and clear_logs calls, every entry ever written is
\* in the live log or in the backup file of the instance that wrote it, and
\* right after a clear_logs that has returned on an enabled instance the
\* live log is empty.
C22_ClearKeepsHistory ==
    /\ \A k \in DOMAIN written :
           LET log_path == loggers[written[k].logger].audit_log_path
               backup_path == with_suffix(log_path, "bak")
           IN  \/ /\ log_path \in DOMAIN fs
                  /\ Has(File(log_path), written[k].entry)
               \/ /\ backup_path \in DOMAIN fs
                  /\ Has(File(backup_path), written[k].entry)
    /\ ( /\ audit_call.op = "clear_logs"
         /\ audit_call.raised = None
         /\ loggers[audit_call.logger].enabled ) =>
           LET log_path == loggers[audit_call.logger].audit_log_path
           IN  /\ log_path \in DOMAIN fs
               /\ File(log_path) = << >>

\* C26: get_recent_logs(limit) on an enabled instance, for a limit >= 0,
\* returns at most limit entries, and they are the last ones of the live
\* log in the order of the log.
C26_RecentLogsWithinLimit ==
    ( /\ audit_call.op = "get_recent_logs"
      /\ loggers[audit_call.logger].enabled ) =>
        LET lines == File(loggers[audit_call.logger].audit_log_path)
            count == IF audit_call.limit < Len(lines)
                     THEN audit_call.limit ELSE Len(lines)
        IN  /\ Len(audit_call.returned) <= audit_call.limit
            /\ audit_call.returned =
                   SubSeq(lines, Len(lines) - count + 1, Len(lines))

\* C28: a write operation on an enabled instance appends exactly one line,
\* its entry, to the file that the path of the instance names, and nothing
\* to any other file, however many instances have been constructed.
C28_WriteAppendsOneRecord ==
    ( /\ audit_call.op = "write"
      /\ loggers[audit_call.logger].enabled ) =>
        \A path \in DOMAIN fs :
            File(path) =
                ( IF path \in DOMAIN audit_call.before
                  THEN audit_call.before[path] ELSE << >> )
                \o ( IF path = loggers[audit_call.logger].audit_log_path
                     THEN << audit_call.entry >> ELSE << >> )

-----------------------------------------------------------------------------
(* Properties of the tool registry, checked under SpecRegistry *)

\* C15: after any registers and unregisters, a register of a tool whose name
\* the registry holds raises ValueError and leaves the registry as it was:
\* the same names, each mapped to the tool it was mapped to.
C15_DuplicateRegisterRejected ==
    ( /\ registry_call.op = "register"
      /\ registry_call.name \in DOMAIN registry_call.before ) =>
        /\ registry_call.raised = "ValueError"
        /\ DOMAIN registry = DOMAIN registry_call.before
        /\ \A name \in DOMAIN registry :
               registry[name] = registry_call.before[name]

C15_Witness ==
    /\ registry_call.op = "register"
    /\ registry_call.raised = "ValueError"
    /\ registry_call.name = "echo"
    /\ registry_call.tool.id = 2
    /\ registry["echo"].id = 1
    /\ Cardinality(DOMAIN registry) = 2

-----------------------------------------------------------------------------
(* Properties of the sanitization, checked under SpecSanitize *)

\* C16: sanitize_parameters is idempotent: applied to its own result it
\* returns that result.
C16_SanitizeIdempotent ==
    sanitized.t = "dict" => sanitize_parameters(sanitized) = sanitized

C16_Witness ==
    /\ sanitized.t = "dict"
    /\ "items" \in DOMAIN params.v
    /\ params.v["items"].t = "list"
    /\ Len(params.v["items"].v) = 2
    /\ params.v["items"].v[2].t = "dict"
    /\ "Auth_Token" \in DOMAIN params.v["items"].v[2].v
    /\ params.v["items"].v[2].v["Auth_Token"].t = "dict"
    /\ sanitized.v["items"].v[2].v["Auth_Token"] = Scalar(REDACTED)
    /\ sanitized.v["items"].v[2].v["name"] = Scalar("alice")

RECURSIVE FullySanitized(_, _)
\* out is the structure of in with the value of every sensitive key, at
\* every depth, replaced by the marker and every other value kept
FullySanitized(in, out) ==
    /\ out.t = in.t
    /\ CASE in.t = "scalar" -> out.v = in.v
         [] in.t = "dict" ->
                /\ DOMAIN out.v = DOMAIN in.v
                /\ \A key \in DOMAIN in.v :
                       IF is_sensitive_key[key]
                       THEN /\ out.v[key].t = "scalar"
                            /\ out.v[key].v = REDACTED
                       ELSE FullySanitized(in.v[key], out.v[key])
         [] in.t = "list" ->
                /\ Len(out.v) = Len(in.v)
                /\ \A i \in DOMAIN in.v :
                       FullySanitized(in.v[i], out.v[i])

\* C17: in the result of sanitize_parameters every sensitive key has the
\* marker as its value at every nesting depth, in dicts inside lists and
\* inside lists of lists as well, and every other value is unaltered.
C17_SanitizeTotal ==
    sanitized.t = "dict" => FullySanitized(params, sanitized)

-----------------------------------------------------------------------------
(* Properties of the conversation history, checked under SpecAgent *)

\* the leading system message of the history, as a history of its own
LeadingSystemMessage ==
    IF Len(conversation_history) > 0
       /\ conversation_history[1].role = "system"
    THEN << conversation_history[1] >>
    ELSE << >>

\* C18: clear_history leaves exactly the leading system message of the
\* conversation (the one configured at construction), or nothing if the
\* conversation has none, whatever the turns before it appended.
C18_ClearKeepsLeadingSystemMessage ==
    [][clear_history => conversation_history' = LeadingSystemMessage]_vars

\* C19: the conversation history is never longer than the configured
\* maximum: an append that exceeds it drops messages from the front.
C19_HistoryWithinMaximum ==
    Len(conversation_history) <= max_chat_history

\* C30: after every return of process_message (a reply without tool calls,
\* an error of the model call, the bound of the iterations reached), the
\* last message of the history is an assistant message whose content is the
\* text returned.
C30_LastMessageIsTheReturnedText ==
    turn.pc = "done" =>
        /\ conversation_history # << >>
        /\ LET last == conversation_history[Len(conversation_history)]
           IN  /\ last.role = "assistant"
               /\ last.content = turn.returned


\* C23: the calls of process_message on one Agent do not interleave their
\* appends: a call appends to the history only while no other call has
\* started after it, so that the messages of each call (its user message,
\* the replies, the tool messages) are one contiguous block.  base is the
\* length of the history at the start of a call; a call with a larger base
\* has its user message after that of a call with a smaller one.
C23_TurnsDoNotInterleave ==
    [][ Len(conversation_history') > Len(conversation_history) =>
          \A i \in DOMAIN suspended' :
              suspended'[i].base < turn'.base ]_vars

====
